---- MODULE Spec2Model ----
(***************************************************************************)
(* Model of net::SingleThreadedProxyResolver                               *)
(* (src/net/proxy/single_threaded_proxy_resolver.cc).                      *)
(*                                                                         *)
(* Two threads: the origin thread, which runs the public operations and    *)
(* the QueryComplete tasks posted to its message loop, and the single      *)
(* worker thread ("pac-thread"), whose message loop runs Job::DoQuery and  *)
(* SetPacScriptTask::Run in post order.  A job is identified by its        *)
(* submission number (its index in `jobs`).                                *)
(*                                                                         *)
(* callback_->Run is caller code: QueryComplete is split where it calls    *)
(* the callback, and while in_callback names a job the caller may submit,  *)
(* cancel other handles, configure or destroy the dispatcher re-entrantly. *)
(* Tasks already posted keep running after the destructor (base::Thread    *)
(* drains its loop while stopping).  `refs` counts the references the file *)
(* itself takes: the queue's scoped_refptr and the AddRef in Job::Start.   *)
(***************************************************************************)
EXTENDS Integers, Sequences, FiniteSets, TLC

\* ------------------------------------------------------------------ bounds
MaxJobs == 3
MaxSetPac == 1

\* ------------------------------------------------------- program constants
OK == 0
ERR_IO_PENDING == -1
ERR_FAILED == -2

NULL == "NULL"
NoJob == 0
NoRv == 99
NoInfo == <<>>

\* URLs callers ask about: one the wrapped resolver fails on and two it
\* resolves.
Urls == {"bad", "a", "b"}

VARIABLES
    alive,          \* the SingleThreadedProxyResolver exists (not destroyed)
    pending_jobs,   \* PendingJobsQueue pending_jobs_ (front = index 1)
    jobs,           \* every Job ever created, by submission number
    thread_,        \* scoped_ptr<base::Thread> thread_ is non-null
    thread_starts,  \* how many times base::Thread::Start() was called
    worker_queue,   \* tasks posted to the worker's message loop
    worker_cur,     \* job whose DoQuery the worker is executing, or NoJob
    resolver_pac,   \* the PAC script the wrapped resolver has installed
    origin_queue,   \* QueryComplete tasks posted to the origin loop
    in_callback,    \* job whose callback_->Run is on the origin stack
    delivered,      \* log of callback_->Run(code) calls, in order
    setpac_calls,   \* number of SetPacScript* calls made so far
    dcheck_failed,  \* a DCHECK of the dispatcher failed
    uaf,            \* a job called into the dispatcher after its destruction
    last_rv         \* value returned by the last GetProxyForURL

vars == <<alive, pending_jobs, jobs, thread_, thread_starts, worker_queue,
          worker_cur, resolver_pac, origin_queue, in_callback, delivered,
          setpac_calls, dcheck_failed, uaf, last_rv>>

\* The part of the state the origin-thread code reads and writes
\* (setpac_calls is only read, to stamp posted tasks).
Disp ==
    [pending_jobs |-> pending_jobs, jobs |-> jobs, thread_ |-> thread_,
     thread_starts |-> thread_starts, worker_queue |-> worker_queue,
     dcheck_failed |-> dcheck_failed, delivered |-> delivered,
     in_callback |-> in_callback, alive |-> alive, uaf |-> uaf,
     setpac_calls |-> setpac_calls]

Commit(s) ==
    /\ pending_jobs' = s.pending_jobs
    /\ jobs' = s.jobs
    /\ thread_' = s.thread_
    /\ thread_starts' = s.thread_starts
    /\ worker_queue' = s.worker_queue
    /\ dcheck_failed' = s.dcheck_failed
    /\ delivered' = s.delivered
    /\ in_callback' = s.in_callback
    /\ alive' = s.alive
    /\ uaf' = s.uaf

\* ------------------------------------------------------------ sequences
RECURSIVE IndexOf(_, _, _)
IndexOf(q, x, i) ==
    IF i > Len(q) THEN 0
    ELSE IF q[i] = x THEN i ELSE IndexOf(q, x, i + 1)

Erase(q, i) == SubSeq(q, 1, i - 1) \o SubSeq(q, i + 1, Len(q))

InSeq(q, x) == \E i \in 1..Len(q) : q[i] = x

\* ------------------------------------------------------------------- Job
NewJob(url, nsetpac) ==
    [url |-> url,
     coordinator_ |-> "this",
     callback_ |-> "callback",
     results_ |-> "results",
     is_started_ |-> FALSE,
     results_buf_ |-> NoInfo,
     refs |-> 0,
     \* observers, not fields of the class:
     slot |-> NoInfo,            \* the caller's ProxyInfo (*results)
     rv |-> NoRv,                \* what the engine returned for this job
     cancel_returned |-> FALSE,  \* CancelRequest(handle) has returned
     setpac_before |-> nsetpac,  \* SetPacScript* calls made before Submit
     starts |-> 0]               \* number of Job::Start calls

AddRef(s, j) == [s EXCEPT !.jobs[j].refs = @ + 1]

Release(s, j) == [s EXCEPT !.jobs[j].refs = @ - 1]

is_started(s, j) == s.jobs[j].is_started_

was_cancelled(s, j) == s.jobs[j].callback_ = NULL

\* A task carries, as an observer, the number of SetPacScript* calls made
\* before it was posted.
DoQueryTask(j, n) == [type |-> "DoQuery", job |-> j, n |-> n]

SetPacTask(n) == [type |-> "SetPacScript", job |-> NoJob, n |-> n]

QueryCompleteTask(j, rv) == [job |-> j, rv |-> rv]

\* Variant: Start posts DoQuery without taking a reference.
Start_NoAddRef(s, j) ==
    LET a == [s EXCEPT !.jobs[j].is_started_ = TRUE,
                       !.jobs[j].starts = @ + 1]
    IN  [a EXCEPT !.worker_queue = Append(@, DoQueryTask(j, s.setpac_calls))]

Start(s, j) ==
    LET a == [s EXCEPT !.jobs[j].is_started_ = TRUE,
                       !.jobs[j].starts = @ + 1]
        b == AddRef(a, j)
    IN  [b EXCEPT !.worker_queue = Append(@, DoQueryTask(j, s.setpac_calls))]

\* Variant: Cancel forgets to clear coordinator_.
Cancel_KeepsCoordinator(s, j) ==
    [s EXCEPT !.jobs[j].callback_ = NULL,
              !.jobs[j].results_ = NULL]

\* Variant: Cancel forgets to clear callback_.
Cancel_KeepsCallback(s, j) ==
    [s EXCEPT !.jobs[j].coordinator_ = NULL,
              !.jobs[j].results_ = NULL]

Cancel(s, j) ==
    [s EXCEPT !.jobs[j].coordinator_ = NULL,
              !.jobs[j].callback_ = NULL,
              !.jobs[j].results_ = NULL]

\* ------------------------------------------- SingleThreadedProxyResolver
\* Variant: the thread is created and started without the null check.
EnsureThreadStarted_Always(s) ==
    [s EXCEPT !.thread_ = TRUE, !.thread_starts = @ + 1]

EnsureThreadStarted(s) ==
    IF ~s.thread_
    THEN [s EXCEPT !.thread_ = TRUE, !.thread_starts = @ + 1]
    ELSE s

\* Variant: the is_started() test on the head is missing.
ProcessPendingJobs_NoStartedCheck(s) ==
    IF s.pending_jobs = <<>> THEN s
    ELSE Start(EnsureThreadStarted(s), Head(s.pending_jobs))

\* Variant: looks at the back of the queue instead of the front.
ProcessPendingJobs_Back(s) ==
    IF s.pending_jobs = <<>> THEN s
    ELSE LET job == s.pending_jobs[Len(s.pending_jobs)]
         IN  IF is_started(s, job) THEN s
             ELSE Start(EnsureThreadStarted(s), job)

ProcessPendingJobs(s) ==
    IF s.pending_jobs = <<>> THEN s
    ELSE LET job == Head(s.pending_jobs)
         IN  IF is_started(s, job) THEN s
             ELSE Start(EnsureThreadStarted(s), job)

\* Variant: the front is popped but the next job is not started.
RemoveFrontOfJobsQueueAndStartNext_NoStartNext(s, expected_job) ==
    IF s.pending_jobs = <<>> \/ Head(s.pending_jobs) # expected_job
    THEN [s EXCEPT !.dcheck_failed = TRUE]
    ELSE Release([s EXCEPT !.pending_jobs = Tail(@)], expected_job)

\* pop_front drops the queue's scoped_refptr to the job.
RemoveFrontOfJobsQueueAndStartNext(s, expected_job) ==
    IF s.pending_jobs = <<>> \/ Head(s.pending_jobs) # expected_job
    THEN [s EXCEPT !.dcheck_failed = TRUE]
    ELSE LET popped == Release([s EXCEPT !.pending_jobs = Tail(@)],
                               expected_job)
         IN  ProcessPendingJobs(popped)

\* Variant: the new job is started directly instead of through
\* ProcessPendingJobs.
GetProxyForURL_StartsNew(s, url, nsetpac) ==
    LET job == Len(s.jobs) + 1
        created == AddRef([s EXCEPT !.jobs = Append(@, NewJob(url, nsetpac))],
                          job)
        pushed == AddRef([created EXCEPT !.pending_jobs = Append(@, job)],
                         job)
        processed == Start(EnsureThreadStarted(pushed), job)
    IN  [state |-> Release(processed, job), rv |-> ERR_IO_PENDING]

\* Variant: reports OK to the caller instead of ERR_IO_PENDING.
GetProxyForURL_ReturnsOK(s, url, nsetpac) ==
    LET job == Len(s.jobs) + 1
        created == AddRef([s EXCEPT !.jobs = Append(@, NewJob(url, nsetpac))],
                          job)
        pushed == AddRef([created EXCEPT !.pending_jobs = Append(@, job)],
                         job)
        processed == ProcessPendingJobs(pushed)
    IN  [state |-> Release(processed, job), rv |-> OK]

\* scoped_refptr<Job> job = new Job(...); push_back; ProcessPendingJobs;
\* the local reference is dropped on return.  Yields the new state and the
\* returned code.
GetProxyForURL(s, url, nsetpac) ==
    LET job == Len(s.jobs) + 1
        created == AddRef([s EXCEPT !.jobs = Append(@, NewJob(url, nsetpac))],
                          job)
        pushed == AddRef([created EXCEPT !.pending_jobs = Append(@, job)],
                         job)
        processed == ProcessPendingJobs(pushed)
    IN  [state |-> Release(processed, job), rv |-> ERR_IO_PENDING]

\* Variant: the active job is erased like a queued one, without advancing.
CancelRequest_EraseOnly(s, job) ==
    LET cancelled == Cancel(s, job)
        it == IndexOf(cancelled.pending_jobs, job, 1)
        done == IF it = 0
                THEN [cancelled EXCEPT !.dcheck_failed = TRUE]
                ELSE Release([cancelled EXCEPT
                                 !.pending_jobs = Erase(@, it)], job)
    IN  [done EXCEPT !.jobs[job].cancel_returned = TRUE]

\* Variant: a queued job is erased at begin() instead of at |it|.
CancelRequest_EraseFront(s, job) ==
    LET is_active_job == /\ is_started(s, job)
                         /\ s.pending_jobs # <<>>
                         /\ Head(s.pending_jobs) = job
        cancelled == Cancel(s, job)
        it == IndexOf(cancelled.pending_jobs, job, 1)
        done == IF is_active_job
                THEN RemoveFrontOfJobsQueueAndStartNext(cancelled, job)
                ELSE IF it = 0
                     THEN [cancelled EXCEPT !.dcheck_failed = TRUE]
                     ELSE Release([cancelled EXCEPT
                                      !.pending_jobs = Erase(@, 1)], job)
    IN  [done EXCEPT !.jobs[job].cancel_returned = TRUE]

\* Variant: cancelling the active job also takes its DoQuery task off the
\* worker's loop.
CancelRequest_RemovesTask(s, job) ==
    LET is_active_job == /\ is_started(s, job)
                         /\ s.pending_jobs # <<>>
                         /\ Head(s.pending_jobs) = job
        cancelled == Cancel(s, job)
        it == IndexOf(cancelled.pending_jobs, job, 1)
        removed == [cancelled EXCEPT
                       !.worker_queue =
                           SelectSeq(@, LAMBDA t : t.job # job)]
        done == IF is_active_job
                THEN RemoveFrontOfJobsQueueAndStartNext(removed, job)
                ELSE IF it = 0
                     THEN [cancelled EXCEPT !.dcheck_failed = TRUE]
                     ELSE Release([cancelled EXCEPT
                                      !.pending_jobs = Erase(@, it)], job)
    IN  [done EXCEPT !.jobs[job].cancel_returned = TRUE]

CancelRequest(s, job) ==
    LET is_active_job == /\ is_started(s, job)
                         /\ s.pending_jobs # <<>>
                         /\ Head(s.pending_jobs) = job
        cancelled == Cancel(s, job)
        it == IndexOf(cancelled.pending_jobs, job, 1)
        done == IF is_active_job
                THEN RemoveFrontOfJobsQueueAndStartNext(cancelled, job)
                ELSE IF it = 0
                     THEN [cancelled EXCEPT !.dcheck_failed = TRUE]
                     ELSE Release([cancelled EXCEPT
                                      !.pending_jobs = Erase(@, it)], job)
    IN  [done EXCEPT !.jobs[job].cancel_returned = TRUE]

RECURSIVE CancelAll(_, _)
CancelAll(s, q) ==
    IF q = <<>> THEN s ELSE CancelAll(Cancel(s, Head(q)), Tail(q))

RECURSIVE ReleaseAll(_, _)
ReleaseAll(s, q) ==
    IF q = <<>> THEN s ELSE ReleaseAll(Release(s, Head(q)), Tail(q))

\* Variant: the destructor frees the queue without cancelling the jobs.
Destructor_NoCancel(s) ==
    LET freed == ReleaseAll(s, s.pending_jobs)
    IN  [freed EXCEPT !.pending_jobs = <<>>, !.alive = FALSE]

\* ~SingleThreadedProxyResolver: cancel every queued job; the members are
\* then destroyed, the queue dropping its references.
Destructor(s) ==
    LET cancelled == CancelAll(s, s.pending_jobs)
        freed == ReleaseAll(cancelled, cancelled.pending_jobs)
    IN  [freed EXCEPT !.pending_jobs = <<>>, !.alive = FALSE]

\* Variant: the task is put at the front of the worker's loop.
SetPacScriptHelper_PostsFront(s, n) ==
    LET started == EnsureThreadStarted(s)
    IN  [started EXCEPT !.worker_queue = <<SetPacTask(n)>> \o @]

SetPacScriptHelper(s, n) ==
    LET started == EnsureThreadStarted(s)
    IN  [started EXCEPT !.worker_queue = Append(@, SetPacTask(n))]

\* Variant: results_->Use is not guarded by the result code.
QueryCompleteRun_NoCodeCheck(s, j, result_code) ==
    IF ~was_cancelled(s, j)
    THEN LET used == [s EXCEPT !.jobs[j].slot = s.jobs[j].results_buf_]
         IN  [used EXCEPT
                !.delivered = Append(@, [job |-> j, code |-> result_code]),
                !.in_callback = j]
    ELSE Release(s, j)

\* Variant: the callback is given OK / ERR_FAILED instead of the code.
QueryCompleteRun_Normalizes(s, j, result_code) ==
    IF ~was_cancelled(s, j)
    THEN LET used == IF result_code >= OK
                     THEN [s EXCEPT !.jobs[j].slot = s.jobs[j].results_buf_]
                     ELSE s
             code == IF result_code >= OK THEN OK ELSE ERR_FAILED
         IN  [used EXCEPT
                !.delivered = Append(@, [job |-> j, code |-> code]),
                !.in_callback = j]
    ELSE Release(s, j)

\* Job::QueryComplete up to and including the call of callback_->Run.
QueryCompleteRun(s, j, result_code) ==
    IF ~was_cancelled(s, j)
    THEN LET used == IF result_code >= OK
                     THEN [s EXCEPT !.jobs[j].slot = s.jobs[j].results_buf_]
                     ELSE s
         IN  [used EXCEPT
                !.delivered = Append(@, [job |-> j, code |-> result_code]),
                !.in_callback = j]
    ELSE Release(s, j)

\* Variant: was_cancelled() is not checked again after the callback.
QueryCompleteReturn_NoRecheck(s, j) ==
    LET advanced ==
            IF s.alive
            THEN RemoveFrontOfJobsQueueAndStartNext(s, j)
            ELSE [s EXCEPT !.uaf = TRUE]
    IN  [Release(advanced, j) EXCEPT !.in_callback = NoJob]

\* Job::QueryComplete after callback_->Run has returned.
QueryCompleteReturn(s, j) ==
    LET advanced ==
            IF ~was_cancelled(s, j)
            THEN IF s.alive
                 THEN RemoveFrontOfJobsQueueAndStartNext(s, j)
                 ELSE [s EXCEPT !.uaf = TRUE]
            ELSE s
    IN  [Release(advanced, j) EXCEPT !.in_callback = NoJob]

\* The wrapped resolver is an opaque function of the URL (and of the
\* installed script, which the result does not record).  It fails on "bad",
\* returns OK for "a" and a positive code for "b" (the unit tests use values
\* > 0); it never returns ERR_IO_PENDING (DCHECK_NE in DoQuery).
ResolverGetProxyForURL(url, pac) ==
    [rv |-> CASE url = "bad" -> ERR_FAILED
              [] url = "a" -> OK
              [] OTHER -> 1,
     info |-> <<"proxy for", url>>]

\* Job::DoQuery on the worker: the engine fills results_buf_ and returns rv.
DoQuery(job, pac) ==
    LET r == ResolverGetProxyForURL(job.url, pac)
    IN  [job EXCEPT !.results_buf_ = r.info, !.rv = r.rv]

\* ------------------------------------------------------------------ Init
Init ==
    /\ alive = TRUE
    /\ pending_jobs = <<>>
    /\ jobs = <<>>
    /\ thread_ = FALSE
    /\ thread_starts = 0
    /\ worker_queue = <<>>
    /\ worker_cur = NoJob
    /\ resolver_pac = 0
    /\ origin_queue = <<>>
    /\ in_callback = NoJob
    /\ delivered = <<>>
    /\ setpac_calls = 0
    /\ dcheck_failed = FALSE
    /\ uaf = FALSE
    /\ last_rv = NoRv

WasDelivered(j) == \E i \in 1..Len(delivered) : delivered[i].job = j

\* A handle may be cancelled until its callback has run or it was cancelled.
ValidHandle(j) ==
    /\ j \in 1..Len(jobs)
    /\ ~jobs[j].cancel_returned
    /\ ~WasDelivered(j)

\* --------------------------------------------- origin thread: operations
\* These run on the origin thread, either from its message loop or from
\* inside a completion callback (in_callback # NoJob).
Submit ==
    /\ alive
    /\ Len(jobs) < MaxJobs
    /\ \E url \in Urls :
         LET r == GetProxyForURL(Disp, url, setpac_calls)
         IN  /\ Commit(r.state)
             /\ last_rv' = r.rv
    /\ UNCHANGED <<worker_cur, resolver_pac, origin_queue, setpac_calls>>

CancelReq ==
    /\ alive
    /\ \E j \in 1..Len(jobs) :
         /\ ValidHandle(j)
         /\ Commit(CancelRequest(Disp, j))
    /\ UNCHANGED <<worker_cur, resolver_pac, origin_queue, setpac_calls,
                   last_rv>>

SetPacScript ==
    /\ alive
    /\ setpac_calls < MaxSetPac
    /\ Commit(SetPacScriptHelper(Disp, setpac_calls + 1))
    /\ setpac_calls' = setpac_calls + 1
    /\ UNCHANGED <<worker_cur, resolver_pac, origin_queue, last_rv>>

Destroy ==
    /\ alive
    /\ Commit(Destructor(Disp))
    /\ UNCHANGED <<worker_cur, resolver_pac, origin_queue, setpac_calls,
                   last_rv>>

\* ------------------------------------------ origin thread: message loop
QueryComplete ==
    /\ in_callback = NoJob
    /\ origin_queue # <<>>
    /\ LET t == Head(origin_queue)
       IN  /\ Commit(QueryCompleteRun(Disp, t.job, t.rv))
    /\ origin_queue' = Tail(origin_queue)
    /\ UNCHANGED <<worker_cur, resolver_pac, setpac_calls, last_rv>>

CallbackReturn ==
    /\ in_callback # NoJob
    /\ Commit(QueryCompleteReturn(Disp, in_callback))
    /\ UNCHANGED <<worker_cur, resolver_pac, origin_queue, setpac_calls,
                   last_rv>>

\* ------------------------------------------------------- worker thread
\* The worker's loop takes the next task; a DoQuery task enters the engine.
\* Variant: QueryComplete is posted before the engine call is made.
DoQueryBegin_PostsEarly ==
    /\ worker_cur = NoJob
    /\ worker_queue # <<>>
    /\ Head(worker_queue).type = "DoQuery"
    /\ worker_cur' = Head(worker_queue).job
    /\ worker_queue' = Tail(worker_queue)
    /\ origin_queue' = Append(origin_queue,
                              QueryCompleteTask(Head(worker_queue).job,
                                                ERR_FAILED))
    /\ UNCHANGED <<alive, pending_jobs, jobs, thread_, thread_starts,
                   resolver_pac, in_callback, delivered,
                   setpac_calls, dcheck_failed, uaf, last_rv>>

DoQueryBegin ==
    /\ worker_cur = NoJob
    /\ worker_queue # <<>>
    /\ Head(worker_queue).type = "DoQuery"
    /\ worker_cur' = Head(worker_queue).job
    /\ worker_queue' = Tail(worker_queue)
    /\ UNCHANGED <<alive, pending_jobs, jobs, thread_, thread_starts,
                   resolver_pac, origin_queue, in_callback, delivered,
                   setpac_calls, dcheck_failed, uaf, last_rv>>

\* The engine call returns; DoQuery posts QueryComplete to the origin loop.
DoQueryEnd ==
    /\ worker_cur # NoJob
    /\ jobs' = [jobs EXCEPT ![worker_cur] = DoQuery(@, resolver_pac)]
    /\ origin_queue' = Append(origin_queue,
                              QueryCompleteTask(worker_cur,
                                                jobs'[worker_cur].rv))
    /\ worker_cur' = NoJob
    /\ UNCHANGED <<alive, pending_jobs, thread_, thread_starts, worker_queue,
                   resolver_pac, in_callback, delivered, setpac_calls,
                   dcheck_failed, uaf, last_rv>>

SetPacScriptTaskRun ==
    /\ worker_cur = NoJob
    /\ worker_queue # <<>>
    /\ Head(worker_queue).type = "SetPacScript"
    /\ resolver_pac' = Head(worker_queue).n
    /\ worker_queue' = Tail(worker_queue)
    /\ UNCHANGED <<alive, pending_jobs, jobs, thread_, thread_starts,
                   worker_cur, origin_queue, in_callback, delivered,
                   setpac_calls, dcheck_failed, uaf, last_rv>>

Next ==
    \/ Submit
    \/ CancelReq
    \/ SetPacScript
    \/ Destroy
    \/ QueryComplete
    \/ CallbackReturn
    \/ DoQueryBegin
    \/ DoQueryEnd
    \/ SetPacScriptTaskRun

Spec == Init /\ [][Next]_vars

\* Both message loops run every task posted to them, the engine call
\* returns and the caller's callback returns.  Nothing obliges the caller to
\* submit, cancel, configure or destroy.
LiveSpec ==
    /\ Init
    /\ [][Next]_vars
    /\ WF_vars(DoQueryBegin)
    /\ WF_vars(DoQueryEnd)
    /\ WF_vars(SetPacScriptTaskRun)
    /\ WF_vars(QueryComplete)
    /\ WF_vars(CallbackReturn)

TypeOK ==
    /\ alive \in BOOLEAN
    /\ \A i \in 1..Len(pending_jobs) : pending_jobs[i] \in 1..Len(jobs)
    /\ Len(jobs) <= MaxJobs
    /\ worker_cur \in 0..Len(jobs)
    /\ in_callback \in 0..Len(jobs)
    /\ dcheck_failed \in BOOLEAN
    /\ uaf \in BOOLEAN
    /\ thread_ \in BOOLEAN
    /\ thread_starts \in 0..1
    /\ setpac_calls \in 0..MaxSetPac
    /\ resolver_pac \in 0..setpac_calls
    /\ \A j \in 1..Len(jobs) : jobs[j].url \in Urls

\* ======================================================================
\* Properties
\* ======================================================================
JobIds == 1..Len(jobs)

Queued(j) == InSeq(pending_jobs, j)

\* Job::Cancel has run on j (by CancelRequest or by the destructor).
JobCancelled(j) == jobs[j].callback_ = NULL

\* j's QueryComplete has run its callback and returned.
Finished(j) == WasDelivered(j) /\ in_callback # j

\* Jobs with a DoQuery task waiting in the worker's loop.
PostedJobs ==
    {worker_queue[i].job :
        i \in {k \in 1..Len(worker_queue) : worker_queue[k].type = "DoQuery"}}

\* The transition is the GetProxyForURL that created job j.
SubmitStep(j) == Len(jobs) = j - 1 /\ Len(jobs') = j

\* The transition is the CancelRequest of handle j.
CancelStep(j) ==
    /\ j \in JobIds
    /\ ~jobs[j].cancel_returned
    /\ jobs'[j].cancel_returned

\* C1: completion callbacks run in submission order, at most once per job,
\* and never for a job whose handle was cancelled.
C1_CallbacksInOrder ==
    /\ \A a, b \in 1..Len(delivered) :
         a < b => delivered[a].job < delivered[b].job
    /\ \A a \in 1..Len(delivered) : ~jobs[delivered[a].job].cancel_returned

\* Jobs 1 and 3 completed around a cancelled job 2.
C1_Witness ==
    /\ Len(delivered) = 2
    /\ delivered[1].job = 1
    /\ delivered[2].job = 3
    /\ jobs[2].cancel_returned

\* C2: once CancelRequest(handle) has returned, no later step runs that
\* job's callback, whatever state the job was in and whatever the engine
\* returns.
C2_NoCallbackAfterCancel ==
    [][\A j \in JobIds :
          jobs[j].cancel_returned =>
              \/ delivered' = delivered
              \/ delivered'[Len(delivered')].job # j]_vars

\* The QueryComplete of a job cancelled while it was started has run with a
\* success code and dropped the last reference.
C2_Witness ==
    \E j \in JobIds :
        /\ jobs[j].cancel_returned
        /\ jobs[j].is_started_
        /\ jobs[j].rv \in {OK, 1}
        /\ jobs[j].refs = 0
        /\ \A i \in 1..Len(origin_queue) : origin_queue[i].job # j

\* C3: the worker executes at most one DoQuery at a time; in the queue only
\* the head is started (it always is), so of N jobs submitted before any
\* completes one is dispatched and N-1 wait not started; at most one job
\* that is still attached to the dispatcher has engine work outstanding.
C3_SingleFlight ==
    /\ \A i \in 2..Len(pending_jobs) : ~jobs[pending_jobs[i]].is_started_
    /\ pending_jobs # <<>> => jobs[Head(pending_jobs)].is_started_
    /\ \A j \in JobIds : jobs[j].starts <= 1
    /\ Cardinality({j \in JobIds :
          /\ ~JobCancelled(j)
          /\ j \in PostedJobs \/ worker_cur = j}) <= 1
    /\ \A j \in JobIds : ~jobs[j].is_started_ => j \notin PostedJobs
                                                  /\ worker_cur # j

\* Three jobs submitted, none completed: the head runs, two wait.
C3_Witness ==
    /\ Len(pending_jobs) = 3
    /\ delivered = <<>>
    /\ worker_cur = Head(pending_jobs)
    /\ ~jobs[pending_jobs[2]].is_started_
    /\ ~jobs[pending_jobs[3]].is_started_

\* C4: a job is started (and so can enter DoQuery) only when every job
\* submitted before it has finished or been cancelled.
C4_StartInSubmissionOrder ==
    \A j \in JobIds :
        jobs[j].is_started_ =>
            \A i \in 1..(j - 1) : Finished(i) \/ JobCancelled(i)

\* Job 3 is in the engine after job 1 finished and job 2 was cancelled.
C4_Witness ==
    /\ Len(jobs) = 3
    /\ worker_cur = 3
    /\ Finished(1)
    /\ ~JobCancelled(1)
    /\ jobs[2].cancel_returned

\* C5: GetProxyForURL returns ERR_IO_PENDING, appends the job at the tail
\* of the queue, and runs no callback and writes no output slot before it
\* returns.
C5_SubmitNeverSynchronous ==
    [][\A j \in 1..MaxJobs :
          SubmitStep(j) =>
              /\ last_rv' = ERR_IO_PENDING
              /\ pending_jobs' = Append(pending_jobs, j)
              /\ delivered' = delivered
              /\ jobs'[j].slot = NoInfo
              /\ \A k \in JobIds : jobs'[k].slot = jobs[k].slot]_vars

\* A submission into an empty queue was dispatched at once and returned
\* ERR_IO_PENDING.
C5_Witness ==
    /\ Len(jobs) > 1
    /\ last_rv = ERR_IO_PENDING
    /\ pending_jobs = <<Len(jobs)>>
    /\ jobs[Len(jobs)].is_started_
    /\ worker_queue # <<>>
    /\ worker_queue[Len(worker_queue)] = DoQueryTask(Len(jobs), setpac_calls)
    /\ delivered = <<>>

\* C6: cancelling the active job pops it and, in the same call, starts the
\* new head if there is one; a Submit into an empty queue starts its job
\* inside that Submit.
C6_CancelActiveAdvances ==
    [][/\ \A j \in JobIds :
            (/\ CancelStep(j)
             /\ jobs[j].is_started_
             /\ pending_jobs # <<>>
             /\ Head(pending_jobs) = j) =>
                /\ pending_jobs' = Tail(pending_jobs)
                /\ Tail(pending_jobs) = <<>> => worker_queue' = worker_queue
                /\ Tail(pending_jobs) # <<>> =>
                     LET n == Head(Tail(pending_jobs))
                     IN  /\ ~jobs[n].is_started_
                         /\ jobs'[n].is_started_
                         /\ worker_queue' =
                                Append(worker_queue,
                                       DoQueryTask(n, setpac_calls))
       /\ \A j \in 1..MaxJobs :
            (SubmitStep(j) /\ pending_jobs = <<>>) =>
                /\ jobs'[j].is_started_
                /\ worker_queue' =
                       Append(worker_queue, DoQueryTask(j, setpac_calls))]_vars

\* Job 1 was cancelled while its DoQuery was outstanding and job 2 was
\* started by that cancel.
C6_Witness ==
    /\ Len(jobs) >= 2
    /\ jobs[1].cancel_returned
    /\ jobs[1].is_started_
    /\ jobs[1].rv = NoRv
    /\ delivered = <<>>
    /\ pending_jobs # <<>>
    /\ Head(pending_jobs) = 2
    /\ jobs[2].is_started_

\* C7: cancelling a job that is not started erases exactly that job: the
\* head stays the started head, every other job and both message loops are
\* untouched, and nothing is posted to the worker.
C7_CancelQueuedIsLocal ==
    [][\A j \in JobIds :
          (CancelStep(j) /\ ~jobs[j].is_started_) =>
              /\ Len(pending_jobs) >= 2
              /\ Head(pending_jobs) # j
              /\ Queued(j)
              /\ pending_jobs' =
                     Erase(pending_jobs, IndexOf(pending_jobs, j, 1))
              /\ Head(pending_jobs') = Head(pending_jobs)
              /\ jobs'[Head(pending_jobs')].is_started_
              /\ ~jobs'[Head(pending_jobs')].callback_ = NULL
              /\ ~jobs'[j].is_started_
              /\ \A k \in JobIds \ {j} : jobs'[k] = jobs[k]
              /\ worker_queue' = worker_queue
              /\ worker_cur' = worker_cur
              /\ origin_queue' = origin_queue
              /\ delivered' = delivered
              /\ in_callback' = in_callback
              /\ thread_' = thread_]_vars

\* Job 2 was cancelled while waiting behind job 1; job 1 still completed and
\* job 3 then became the started head.
C7_Witness ==
    /\ Len(jobs) = 3
    /\ jobs[2].cancel_returned
    /\ ~jobs[2].is_started_
    /\ Len(delivered) = 1
    /\ delivered[1].job = 1
    /\ pending_jobs = <<3>>
    /\ jobs[3].is_started_

\* C8: a caller's output slot changes only in the QueryComplete step of its
\* own job, on a job that is not cancelled, with a result code >= OK, and it
\* receives the buffer the engine filled for that job's URL.
C8_SlotWrittenOnlyOnSuccess ==
    [][\A j \in JobIds :
          jobs'[j].slot # jobs[j].slot =>
              /\ in_callback = NoJob
              /\ in_callback' = j
              /\ origin_queue # <<>>
              /\ Head(origin_queue).job = j
              /\ Head(origin_queue).rv >= OK
              /\ ~JobCancelled(j)
              /\ ~jobs[j].cancel_returned
              /\ jobs[j].rv # NoRv
              /\ jobs[j].rv >= OK
              /\ jobs'[j].slot = jobs[j].results_buf_
              /\ jobs'[j].slot =
                     ResolverGetProxyForURL(jobs[j].url, resolver_pac).info
      ]_vars

\* Two jobs with different URLs both received a result.
C8_Witness ==
    \E j, k \in JobIds :
        /\ jobs[j].url # jobs[k].url
        /\ jobs[j].slot # NoInfo
        /\ jobs[k].slot # NoInfo

\* C9: every callback receives exactly the code the engine returned for
\* its job, and a job that completed with a negative code still has its
\* output slot at the pre-call value.
C9_ErrorDeliveredVerbatim ==
    \A i \in 1..Len(delivered) :
        LET e == delivered[i]
        IN  /\ e.code = jobs[e.job].rv
            /\ e.code < OK => jobs[e.job].slot = NoInfo

\* One job completed with a failure, another with a positive code.
C9_Witness ==
    \E a, b \in 1..Len(delivered) :
        /\ delivered[a].code = ERR_FAILED
        /\ jobs[delivered[a].job].slot = NoInfo
        /\ delivered[b].code > OK

\* C10: the destructor cancels every queued job and starts none; once the
\* dispatcher is destroyed no callback runs, no output slot is written and
\* no job calls into the dispatcher.
C10_DestructorCancelsAll ==
    [][/\ (alive /\ ~alive') =>
            /\ \A j \in JobIds :
                 Queued(j) => /\ jobs'[j].callback_ = NULL
                              /\ jobs'[j].coordinator_ = NULL
                              /\ jobs'[j].results_ = NULL
            /\ \A j \in JobIds : jobs'[j].is_started_ = jobs[j].is_started_
            /\ worker_queue' = worker_queue
            /\ delivered' = delivered
       /\ ~alive =>
            /\ delivered' = delivered
            /\ ~uaf'
            /\ ~alive'
            /\ \A j \in JobIds : jobs'[j].slot = jobs[j].slot
            /\ \A j \in JobIds : jobs'[j].is_started_ = jobs[j].is_started_
      ]_vars

\* The dispatcher was destroyed with a started job and a waiting job; the
\* started job's DoQuery and QueryComplete have since run.
C10_Witness ==
    /\ ~alive
    /\ \E j, k \in JobIds :
         /\ jobs[j].is_started_
         /\ ~jobs[j].cancel_returned
         /\ JobCancelled(j)
         /\ jobs[j].rv # NoRv
         /\ jobs[j].refs = 0
         /\ ~WasDelivered(j)
         /\ ~jobs[k].is_started_
         /\ ~jobs[k].cancel_returned
         /\ JobCancelled(k)

\* The transition is the return of job j's callback into QueryComplete.
CallbackReturnStep(j) == j # NoJob /\ in_callback = j /\ in_callback' = NoJob

\* C11: when the callback of job j destroyed the dispatcher, the rest of
\* j's QueryComplete does no queue bookkeeping and touches no dispatcher
\* state: it only drops the job's reference.
C11_NoBookkeepingAfterDestroy ==
    [][\A j \in JobIds :
          (CallbackReturnStep(j) /\ ~alive) =>
              /\ JobCancelled(j)
              /\ ~uaf'
              /\ ~dcheck_failed'
              /\ pending_jobs' = pending_jobs
              /\ worker_queue' = worker_queue
              /\ thread_' = thread_
              /\ thread_starts' = thread_starts
              /\ jobs' = [jobs EXCEPT ![j].refs = @ - 1]]_vars

\* A job whose callback ran was cancelled by the destructor (which only
\* happens from inside that callback), and its QueryComplete has returned.
C11_Witness ==
    /\ ~alive
    /\ in_callback = NoJob
    /\ \E j \in JobIds :
         /\ WasDelivered(j)
         /\ JobCancelled(j)
         /\ ~jobs[j].cancel_returned
         /\ jobs[j].refs = 0

\* Number of times job j's callback has run.
TimesDelivered(j) ==
    Cardinality({i \in 1..Len(delivered) : delivered[i].job = j})

\* C12: while the dispatcher lives, every submitted job that is not
\* cancelled eventually has its callback run, exactly once, and the queue
\* is eventually empty for good once the caller stops submitting.
C12_EveryJobCompletes ==
    /\ \A j \in 1..MaxJobs :
         (Len(jobs) >= j) ~>
             (/\ Len(jobs) >= j
              /\ \/ ~alive
                 \/ jobs[j].cancel_returned
                 \/ TimesDelivered(j) = 1)
    /\ <>[](pending_jobs = <<>> /\ in_callback = NoJob)

\* All jobs the bound allows were submitted and completed, none cancelled.
C12_Witness ==
    /\ alive
    /\ Len(delivered) = MaxJobs
    /\ pending_jobs = <<>>
    /\ in_callback = NoJob
    /\ \A j \in JobIds : ~JobCancelled(j) /\ jobs[j].refs = 0

\* The transition is the worker entering DoQuery for job j.
DoQueryBeginStep(j) == j # NoJob /\ worker_cur = NoJob /\ worker_cur' = j

InOriginQueue(j) == \E i \in 1..Len(origin_queue) : origin_queue[i].job = j

\* A method of job j can still be invoked: DoQuery (posted or running),
\* QueryComplete (posted or on the stack), or is_started and Cancel through
\* the queue, the destructor or a handle the caller may still cancel.
Reachable(j) ==
    \/ Queued(j)
    \/ j \in PostedJobs
    \/ worker_cur = j
    \/ InOriginQueue(j)
    \/ in_callback = j
    \/ alive /\ ValidHandle(j)

\* C14: a job on which DoQuery, QueryComplete, Cancel or is_started can
\* still be invoked holds at least one reference, and no count is negative:
\* the queue's reference and the AddRef of Start keep it alive.
C14_NoUseAfterFree ==
    \A j \in JobIds :
        /\ jobs[j].refs >= 0
        /\ Reachable(j) => jobs[j].refs >= 1
        /\ jobs[j].refs =
              (IF Queued(j) THEN 1 ELSE 0)
              + (IF j \in PostedJobs \/ worker_cur = j \/ InOriginQueue(j)
                    \/ in_callback = j
                 THEN 1 ELSE 0)

\* A job cancelled while active is in the engine, kept alive only by the
\* reference Start took; the next job is already started.
C14_Witness ==
    \E j \in JobIds :
        /\ jobs[j].cancel_returned
        /\ worker_cur = j
        /\ ~Queued(j)
        /\ jobs[j].refs = 1
        /\ pending_jobs # <<>>
        /\ jobs[Head(pending_jobs)].is_started_
        /\ alive

\* Job j has engine work executing or pending on the worker.
OnWorker(j) == j \in PostedJobs \/ worker_cur = j

\* C15 as stated: when the front of the queue is started, no other job has
\* engine work executing or pending on the worker.
C15_HeadAloneOnWorker ==
    (pending_jobs # <<>> /\ jobs[Head(pending_jobs)].is_started_) =>
        \A j \in JobIds : OnWorker(j) => j = Head(pending_jobs)

\* C15 amended: when the front of the queue is started, it is the only job
\* still attached to the dispatcher (not cancelled) with engine work
\* executing or pending; the others on the worker are jobs cancelled after
\* they were started, which have left the queue.
C15_HeadAloneAmongAttached ==
    (pending_jobs # <<>> /\ jobs[Head(pending_jobs)].is_started_) =>
        \A j \in JobIds :
            OnWorker(j) =>
                \/ j = Head(pending_jobs)
                \/ /\ JobCancelled(j)
                   /\ jobs[j].cancel_returned
                   /\ jobs[j].is_started_
                   /\ ~Queued(j)

\* Job 1, cancelled while running, is still in the engine while job 2, the
\* new head, is started and posted behind it.
C15_Witness ==
    /\ Len(jobs) >= 2
    /\ worker_cur = 1
    /\ jobs[1].cancel_returned
    /\ pending_jobs # <<>>
    /\ Head(pending_jobs) = 2
    /\ jobs[2].is_started_
    /\ 2 \in PostedJobs

\* The transition is the origin loop running job j's QueryComplete task.
QueryCompleteStep(j) ==
    /\ origin_queue # <<>>
    /\ Head(origin_queue).job = j
    /\ origin_queue' = Tail(origin_queue)

\* C16: Job::Cancel clears coordinator_, callback_ and results_ together;
\* from then on they stay cleared, the job's callback is not run, its
\* output slot is not written, and its QueryComplete (or the rest of it,
\* when cancelled inside its own callback) changes nothing but the job's
\* reference count.
C16_CancelledJobIsDetached ==
    [][\A j \in JobIds :
          /\ (~JobCancelled(j) /\ jobs'[j].callback_ = NULL) =>
                /\ jobs'[j].coordinator_ = NULL
                /\ jobs'[j].results_ = NULL
          /\ JobCancelled(j) =>
                /\ jobs'[j].callback_ = NULL
                /\ jobs'[j].coordinator_ = NULL
                /\ jobs'[j].results_ = NULL
                /\ jobs'[j].slot = jobs[j].slot
                /\ \/ delivered' = delivered
                   \/ delivered'[Len(delivered')].job # j
                /\ (QueryCompleteStep(j) \/ CallbackReturnStep(j)) =>
                      /\ jobs' = [jobs EXCEPT ![j].refs = @ - 1]
                      /\ pending_jobs' = pending_jobs
                      /\ worker_queue' = worker_queue
                      /\ thread_' = thread_
                      /\ delivered' = delivered
                      /\ in_callback' = NoJob
                      /\ ~uaf'
                      /\ ~dcheck_failed']_vars

\* With the dispatcher alive and another job queued, the QueryComplete of
\* a job cancelled while it was started has run and left the slot alone.
C16_Witness ==
    /\ alive
    /\ pending_jobs # <<>>
    /\ \E j \in JobIds :
         /\ jobs[j].cancel_returned
         /\ jobs[j].is_started_
         /\ jobs[j].rv # NoRv
         /\ ~InOriginQueue(j)
         /\ jobs[j].refs = 0
         /\ jobs[j].slot = NoInfo
         /\ jobs[j].coordinator_ = NULL

\* The state of job j in the Job state machine, given the job records js
\* and the callback log dl: Completed once its callback has run, otherwise
\* Cancelled once Cancel has run on it, otherwise Running once started.
JobState(js, dl, j) ==
    IF \E i \in 1..Len(dl) : dl[i].job = j THEN "Completed"
    ELSE IF js[j].callback_ = NULL \/ js[j].cancel_returned THEN "Cancelled"
    ELSE IF js[j].is_started_ THEN "Running"
    ELSE "Queued"

JobMoves ==
    {<<"Queued", "Running">>, <<"Queued", "Cancelled">>,
     <<"Running", "Completed">>, <<"Running", "Cancelled">>}

ProcessOnce(s) ==
    LET p == ProcessPendingJobs(s)
    IN  /\ ProcessPendingJobs(p) = p
        /\ IF s.pending_jobs = <<>> \/ s.jobs[Head(s.pending_jobs)].is_started_
           THEN p = s
           ELSE LET h == Head(s.pending_jobs)
                IN  /\ p.jobs[h].is_started_
                    /\ p.jobs[h].starts = s.jobs[h].starts + 1
                    /\ \A k \in 1..Len(s.jobs) :
                          k # h => p.jobs[k] = s.jobs[k]
                    /\ Len(p.jobs) = Len(s.jobs)
                    /\ p.pending_jobs = s.pending_jobs
                    /\ p.thread_
                    /\ p.worker_queue =
                          Append(s.worker_queue,
                                 DoQueryTask(h, s.setpac_calls))

\* The state in which RemoveFrontOfJobsQueueAndStartNext calls
\* ProcessPendingJobs: the front has just been popped.
AfterPopFront ==
    Release([Disp EXCEPT !.pending_jobs = Tail(@)], Head(pending_jobs))

\* The state in which GetProxyForURL calls ProcessPendingJobs: the new job
\* has just been pushed.
AfterPushBack(url) ==
    LET job == Len(jobs) + 1
    IN  AddRef(AddRef([Disp EXCEPT
                          !.jobs = Append(@, NewJob(url, setpac_calls)),
                          !.pending_jobs = Append(@, job)], job), job)

\* C18: ProcessPendingJobs is idempotent: no-op on an empty queue or a
\* started head, otherwise starts only the head; so every job is started
\* (posted to the worker) at most once, and only while it is the head.
C18_ProcessPendingJobsIdempotent ==
    [][/\ ProcessOnce(Disp)
       /\ pending_jobs # <<>> => ProcessOnce(AfterPopFront)
       /\ Len(jobs) < MaxJobs =>
             \A url \in Urls : ProcessOnce(AfterPushBack(url))
       /\ \A j \in 1..Len(jobs') :
             LET before == IF j <= Len(jobs) THEN jobs[j].starts ELSE 0
             IN  /\ jobs'[j].starts <= 1
                 /\ jobs'[j].starts # before =>
                       /\ pending_jobs' # <<>>
                       /\ Head(pending_jobs') = j
                       /\ worker_queue' =
                             Append(worker_queue,
                                    DoQueryTask(j, setpac_calls))]_vars

\* The head's callback is running with a second job queued behind it: a
\* call now does nothing, the call after the pop starts the second job.
C18_Witness ==
    /\ alive
    /\ Len(pending_jobs) >= 2
    /\ in_callback = Head(pending_jobs)
    /\ ProcessPendingJobs(Disp) = Disp
    /\ ProcessPendingJobs(AfterPopFront) # AfterPopFront
    /\ ~jobs[pending_jobs[2]].is_started_

\* C19 as stated: the worker thread is absent until the first submission
\* (GetProxyForURL), and is started at most once.
C19_ThreadAbsentUntilSubmission ==
    /\ thread_ => Len(jobs) >= 1
    /\ thread_starts <= 1

\* C19, amended: the worker thread is absent until the first submission or
\* SetPacScript* call, whichever comes first, exists from then on, and has
\* been started exactly once whenever it exists.
C19_ThreadStartedOnFirstUse ==
    /\ thread_ <=> (Len(jobs) + setpac_calls >= 1)
    /\ thread_starts = IF thread_ THEN 1 ELSE 0

\* A SetPacScript* call came first and started the thread; two jobs
\* submitted afterwards run on that same thread.
C19_Witness ==
    /\ alive
    /\ thread_starts = 1
    /\ setpac_calls = 1
    /\ Len(jobs) >= 2
    /\ jobs[1].setpac_before = 1
    /\ jobs[2].is_started_

\* A QueryComplete task is posted to the origin thread in this step.
PostsQueryComplete == Len(origin_queue') > Len(origin_queue)

\* The engine call of DoQuery for job j returns in this step.
DoQueryEndStep(j) == j # NoJob /\ worker_cur = j /\ worker_cur' = NoJob

\* C20 as stated: QueryComplete for a job is posted only after that job's
\* engine call has finished, and only if the job was not cancelled before
\* that point.
C20_PostedOnlyIfNotCancelled ==
    [][PostsQueryComplete =>
          LET j == origin_queue'[Len(origin_queue')].job
          IN  /\ DoQueryEndStep(j)
              /\ ~JobCancelled(j)]_vars

\* C20, amended: QueryComplete for a job is posted exactly when that job's
\* engine call returns, carrying the engine's result code, whether or not
\* the job has been cancelled; what a cancellation prevents is the caller's
\* callback, which only runs for a job that is not cancelled when its
\* QueryComplete task runs on the origin thread.
C20_PostedAfterWorkAlways ==
    [][/\ PostsQueryComplete =>
             /\ DoQueryEndStep(worker_cur)
             /\ jobs[worker_cur].rv = NoRv
             /\ jobs'[worker_cur].rv # NoRv
             /\ origin_queue' =
                   Append(origin_queue,
                          QueryCompleteTask(worker_cur,
                                            jobs'[worker_cur].rv))
       /\ \A j \in JobIds :
             /\ DoQueryEndStep(j) =>
                   /\ PostsQueryComplete
                   /\ origin_queue'[Len(origin_queue')].job = j
             /\ (delivered' # delivered
                    /\ delivered'[Len(delivered')].job = j) =>
                   /\ QueryCompleteStep(j)
                   /\ ~JobCancelled(j)
                   /\ ~jobs[j].cancel_returned]_vars

\* CancelRequest returned for job 1 while it was running; its engine call
\* has since finished and its QueryComplete task waits on the origin
\* thread, behind nothing, while job 2 is already on the worker.
C20_Witness ==
    /\ alive
    /\ Len(jobs) >= 2
    /\ jobs[1].cancel_returned
    /\ JobCancelled(1)
    /\ origin_queue # <<>>
    /\ Head(origin_queue).job = 1
    /\ worker_cur = 2

\* Job j was cancelled, by CancelRequest or by the destructor.
WasCancelled(j) == JobCancelled(j) \/ jobs[j].cancel_returned

\* C21: cancelling a started job leaves its worker-side work in place: the
\* DoQuery task stays posted or running, its engine call completes and
\* writes only the job's results_buf_, and neither that nor its
\* QueryComplete runs a callback, writes an output slot or changes the queue.
C21_CancelDoesNotInterruptWorker ==
    [][\A j \in JobIds :
          /\ (CancelStep(j) /\ jobs[j].is_started_) =>
                /\ worker_cur' = worker_cur
                /\ origin_queue' = origin_queue
                /\ jobs'[j].results_buf_ = jobs[j].results_buf_
                /\ \/ worker_queue' = worker_queue
                   \/ \E k \in JobIds \ {j} :
                         worker_queue' =
                            Append(worker_queue,
                                   DoQueryTask(k, setpac_calls))
          /\ jobs'[j].is_started_ =>
                \/ jobs'[j].rv # NoRv
                \/ worker_cur' = j
                \/ \E i \in 1..Len(worker_queue') :
                      worker_queue'[i] = DoQueryTask(j, worker_queue'[i].n)
          /\ jobs'[j].results_buf_ # jobs[j].results_buf_ =>
                DoQueryEndStep(j)
          /\ (DoQueryEndStep(j) /\ WasCancelled(j)) =>
                /\ jobs'[j].results_buf_ # NoInfo
                /\ jobs'[j] = [jobs[j] EXCEPT
                                  !.results_buf_ = jobs'[j].results_buf_,
                                  !.rv = jobs'[j].rv]
                /\ \A k \in JobIds \ {j} : jobs'[k] = jobs[k]
                /\ delivered' = delivered
                /\ pending_jobs' = pending_jobs
          /\ (QueryCompleteStep(j) /\ WasCancelled(j)) =>
                /\ delivered' = delivered
                /\ pending_jobs' = pending_jobs
                /\ worker_queue' = worker_queue
                /\ in_callback' = NoJob
                /\ \A k \in JobIds : jobs'[k].slot = jobs[k].slot]_vars

\* Job 1 was cancelled after it was started; its engine call succeeded and
\* filled results_buf_, its QueryComplete has run, and the caller saw
\* nothing: no callback, an untouched output slot.
C21_Witness ==
    /\ alive
    /\ Len(jobs) >= 1
    /\ jobs[1].cancel_returned
    /\ jobs[1].is_started_
    /\ jobs[1].rv = OK
    /\ jobs[1].results_buf_ # NoInfo
    /\ jobs[1].slot = NoInfo
    /\ ~InOriginQueue(1)
    /\ delivered = <<>>
    /\ pending_jobs = <<>>

\* The transition takes job k out of the queue.
LeavesQueue(k) == Queued(k) /\ ~InSeq(pending_jobs', k)

\* C22: a CancelRequest made while the job's QueryComplete is already
\* posted but has not run pops the job and starts the next one, like the
\* cancel of a running job; the QueryComplete in flight then changes
\* nothing but the reference count, so that job is popped once and the job
\* behind it is popped only by its own cancel or completion.
C22_CancelRacingCompletion ==
    [][\A j \in JobIds :
          /\ (CancelStep(j) /\ InOriginQueue(j)) =>
                /\ pending_jobs # <<>>
                /\ Head(pending_jobs) = j
                /\ pending_jobs' = Tail(pending_jobs)
                /\ origin_queue' = origin_queue
                /\ pending_jobs' # <<>> =>
                      LET next == Head(pending_jobs')
                      IN  /\ ~jobs[next].is_started_
                          /\ jobs'[next].is_started_
                          /\ jobs'[next].starts = 1
                          /\ worker_queue' =
                                Append(worker_queue,
                                       DoQueryTask(next, setpac_calls))
          /\ (QueryCompleteStep(j) /\ jobs[j].cancel_returned) =>
                /\ pending_jobs' = pending_jobs
                /\ worker_queue' = worker_queue
                /\ delivered' = delivered
                /\ in_callback' = NoJob
                /\ jobs' = [jobs EXCEPT ![j].refs = @ - 1]
          /\ (~Queued(j)) => ~InSeq(pending_jobs', j)
          /\ LeavesQueue(j) =>
                \/ CancelStep(j)
                \/ CallbackReturnStep(j)
                \/ alive /\ ~alive'
          /\ ~dcheck_failed']_vars

\* Job 1 finished on the worker, was cancelled before its QueryComplete
\* ran, and that task is still waiting on the origin thread; job 2 has
\* taken the front of the queue and was started once.
C22_Witness ==
    /\ alive
    /\ in_callback = NoJob
    /\ Len(jobs) >= 2
    /\ jobs[1].cancel_returned
    /\ jobs[1].rv # NoRv
    /\ origin_queue # <<>>
    /\ Head(origin_queue).job = 1
    /\ pending_jobs # <<>>
    /\ Head(pending_jobs) = 2
    /\ jobs[2].starts = 1
    /\ jobs[2].rv = NoRv

\* C23: between dispatcher operations (and inside a completion callback as
\* well) a non-empty queue has a started, non-cancelled head, every other
\* queued job is neither started nor cancelled, and no job is queued twice;
\* the DCHECKs of RemoveFrontOfJobsQueueAndStartNext and CancelRequest
\* have never failed.
C23_QueueInvariant ==
    /\ ~dcheck_failed
    /\ \A a, b \in 1..Len(pending_jobs) :
          a # b => pending_jobs[a] # pending_jobs[b]
    /\ \A i \in 1..Len(pending_jobs) :
          LET j == pending_jobs[i]
          IN  /\ ~JobCancelled(j)
              /\ ~jobs[j].cancel_returned
              /\ jobs[j].is_started_ <=> (i = 1)
    /\ ~alive => pending_jobs = <<>>

\* Job 1 has completed and was popped; job 2 is the started head with job 3
\* waiting behind it, and no callback is running.
C23_Witness ==
    /\ alive
    /\ in_callback = NoJob
    /\ Finished(1)
    /\ pending_jobs = <<2, 3>>
    /\ jobs[2].is_started_
    /\ ~jobs[3].is_started_
    /\ ~dcheck_failed

\* C24: while the callback of job J runs, J stays the front of the queue
\* whatever the callback submits or cancels; a job submitted from inside
\* the callback is queued without being started; and when the callback
\* returns J is popped and the new head, not started until then, is
\* started exactly once.
C24_ReentrantCallback ==
    [][(in_callback # NoJob /\ alive) =>
          LET J == in_callback
          IN  /\ pending_jobs # <<>>
              /\ Head(pending_jobs) = J
              /\ \A i \in 2..Len(pending_jobs) :
                    ~jobs[pending_jobs[i]].is_started_
              /\ (in_callback' = J /\ alive') =>
                    /\ pending_jobs' # <<>>
                    /\ Head(pending_jobs') = J
                    /\ \A i \in 1..Len(worker_queue') :
                          worker_queue'[i].type = "DoQuery" =>
                             \E m \in 1..Len(worker_queue) :
                                worker_queue[m] = worker_queue'[i]
              /\ \A k \in 1..Len(jobs') :
                    SubmitStep(k) =>
                       /\ ~jobs'[k].is_started_
                       /\ jobs'[k].starts = 0
                       /\ pending_jobs' = Append(pending_jobs, k)
                       /\ worker_queue' = worker_queue
                       /\ last_rv' = ERR_IO_PENDING
              /\ \A k \in JobIds :
                    CancelStep(k) =>
                       /\ k # J
                       /\ ~jobs'[k].is_started_
                       /\ worker_queue' = worker_queue
              /\ CallbackReturnStep(J) =>
                    /\ pending_jobs' = Tail(pending_jobs)
                    /\ pending_jobs' # <<>> =>
                          LET next == Head(pending_jobs')
                          IN  /\ jobs'[next].is_started_
                              /\ jobs'[next].starts = 1
                              /\ worker_queue' =
                                    Append(worker_queue,
                                           DoQueryTask(next, setpac_calls))
                              /\ \A i \in 2..Len(pending_jobs') :
                                    ~jobs'[pending_jobs'[i]].is_started_]_vars

\* Job 1 has completed; job 2 was cancelled before it was ever started, and
\* job 3, which was never the head before job 1 was popped, is now the
\* started head.
C24_Witness ==
    /\ alive
    /\ Finished(1)
    /\ Len(jobs) = 3
    /\ jobs[2].cancel_returned
    /\ ~jobs[2].is_started_
    /\ pending_jobs = <<3>>
    /\ jobs[3].starts = 1
    /\ 3 \in PostedJobs

\* The transition releases the reference that Job::Start took for j: j's
\* QueryComplete reaches its Release(), at once for a cancelled job, after
\* the callback has returned otherwise.
ReleasesStartRef(j) ==
    /\ j \in JobIds
    /\ \/ QueryCompleteStep(j) /\ in_callback' # j
       \/ CallbackReturnStep(j)

\* C25: every change of a job's reference count is accounted for by the
\* queue's reference, the AddRef of Start and the one Release of that job's
\* QueryComplete (cancelled or not); the count is never negative, is zero
\* only after the job completed, was cancelled or lost its dispatcher, stays
\* zero once it got there, and, posted tasks being run, does get there for
\* every job.
C25_NoLeak ==
    /\ [][\A j \in 1..Len(jobs') :
             LET old == j <= Len(jobs)
                 before == IF old THEN jobs[j].refs ELSE 0
                 started == IF old THEN jobs[j].starts ELSE 0
                 inq == IF old /\ Queued(j) THEN 1 ELSE 0
                 inq2 == IF InSeq(pending_jobs', j) THEN 1 ELSE 0
             IN  /\ jobs'[j].refs =
                       before + (inq2 - inq) + (jobs'[j].starts - started)
                       - (IF ReleasesStartRef(j) THEN 1 ELSE 0)
                 /\ jobs'[j].refs >= 0
                 /\ ReleasesStartRef(j) => jobs[j].starts = 1
                 /\ (old /\ before = 0) => jobs'[j].refs = 0]_vars
    /\ [](\A j \in JobIds :
             jobs[j].refs = 0 =>
                \/ Finished(j)
                \/ WasCancelled(j)
                \/ ~alive)
    /\ \A j \in 1..MaxJobs :
          (Len(jobs) >= j) ~> [](Len(jobs) >= j /\ jobs[j].refs = 0)

\* Three jobs freed in the three ways: job 1 completed, job 2 was cancelled
\* while it was running, job 3 was running when the dispatcher was
\* destroyed; each QueryComplete has released the reference of Start.
C25_Witness ==
    /\ ~alive
    /\ Len(jobs) = 3
    /\ Finished(1)
    /\ jobs[2].cancel_returned /\ jobs[2].starts = 1
    /\ ~jobs[3].cancel_returned /\ ~WasDelivered(3) /\ jobs[3].starts = 1
    /\ jobs[3].rv # NoRv
    /\ \A j \in JobIds : jobs[j].refs = 0
    /\ origin_queue = <<>>

====
